---- MODULE Spec2Model ----
(***************************************************************************)
(* Model of gemini_chat_app.py: a Streamlit chat page that forwards the    *)
(* user's prompt to a Gemini chat session and streams the reply.           *)
(*                                                                         *)
(* One Streamlit process serves several browser sessions.  Each session    *)
(* has its own st.session_state (the transcript "messages") and runs the   *)
(* script main() once per event, in its own script thread, so the runs of  *)
(* different sessions interleave.  get_gemini_chat_session is decorated    *)
(* with st.cache_resource: its result lives in one process-wide cache.     *)
(*                                                                         *)
(* A script run is split into the steps of main():                         *)
(*   idle -RunScript-> init -Initialize-> render -RenderAll-> input        *)
(*        -NoInput-> idle                                                  *)
(*        -AppendUserTurn-> send -SendMessage-> stream -Chunk*->           *)
(*        -FinalizeSuccess-> idle                                          *)
(*        -DisplayRaised-> idle                                            *)
(*   send/stream -ApiErrorRaised-> idle, -OtherErrorRaised-> idle          *)
(* A run ends by returning or by an exception leaving main().  The Gemini  *)
(* SDK and Streamlit are taken by their interfaces: send_message yields a  *)
(* finite stream of chunks and may raise, at the call or at any chunk, an  *)
(* APIError or another exception; the display calls between the append of  *)
(* the USER turn and the try statement may raise as well.                  *)
(***************************************************************************)
EXTENDS Integers, Sequences, FiniteSets, TLC

\* ------------------------------------------------------------------ bounds
\* Script runs (events) served by the process, over all sessions.
MaxEvents == 3

\* ------------------------------------------------------------ input domains
Sessions == {1, 2}

\* st.chat_input returns None when nothing was submitted, else non-empty text.
NoPrompt == ""
Prompts == {"hi", "x"}

\* The texts of the chunks of one reply stream (chunk.text; "" is falsy, as None).
Responses ==
    { <<>>,
      <<"">>,
      <<"Hi", "!">>,
      <<"Hel", "lo, ", "world">>,
      <<"lo", "", "lo">> }

\* st.secrets["GEMINI_API_KEY"]: "key" returns the key; "no_key" raises
\* KeyError (a secrets file without the key); "no_file" raises
\* FileNotFoundError (no secrets file at all), after st.secrets has written
\* its own error box on the page.
SecretStates == {"key", "no_key", "no_file"}

\* str(e) of a raised APIError.
ErrorTexts == {"429 quota", "503"}

\* ------------------------------------------------------------ program texts
WelcomeText == "Hello! I'm StreamlitChat. How can I help you today?"
ApiErrorText == "Sorry, I encountered an API error."
CURSOR == "▌"
MissingKeyNotice ==
    "GEMINI_API_KEY not found. Please set your Gemini API key in Streamlit secrets."
StartedNotice == "Gemini chat session started."
\* The error box st.secrets writes when there is no secrets file (its text
\* goes on to list the valid paths).
NoSecretsFileNotice == "No secrets files found."

\* "messages" not in st.session_state: a value no list of Content equals
\* (no Content of the program has the role "absent").
NoMessages == <<[role |-> "absent", text |-> ""]>>

VARIABLES
    secret,         \* process: what st.secrets["GEMINI_API_KEY"] does (SecretStates)
    chatCache,      \* process: st.cache_resource entry of get_gemini_chat_session (0: none)
    chatLog,        \* process: per chat handle, the prompts sent to it, with the sender
    pc,             \* session: position of its script run
    runs,           \* session: script runs it has started
    messages,       \* session: st.session_state.messages, or NoMessages
    chat,           \* run: local "chat" (0: unset)
    pending,        \* run: the value st.chat_input returns in this run
    full_response,  \* run: local "full_response"
    stream,         \* run: chunk texts of response_stream
    pos,            \* run: chunks of response_stream consumed
    placeholder,    \* page: <<>> no slot, <<t>> the st.empty() slot showing t
    lines,          \* page: the chat_message lines written by the last run
    notice,         \* page: st.error / st.success boxes written by the last run
    inputShown,     \* page: the chat_input widget is on the page
    outcome,        \* session: how its last run ended
    submits,        \* session: prompts accepted since its transcript was created
    sent,           \* session: chat.send_message calls since its transcript was created
    cleared         \* session: its session state was discarded at least once

procVars == <<secret, chatCache, chatLog>>
runVars == <<chat, pending, full_response, stream, pos>>
pageVars == <<placeholder, lines, notice, inputShown>>
histVars == <<runs, outcome, submits, sent, cleared>>
vars == <<secret, chatCache, chatLog, pc, runs, messages, chat, pending,
          full_response, stream, pos, placeholder, lines, notice, inputShown,
          outcome, submits, sent, cleared>>

\* ------------------------------------------------------------------ helpers
\* types.Content(role=r, parts=[types.Part.from_text(t)])
Content(r, t) == [role |-> r, text |-> t]

Last(q) == q[Len(q)]

\* The role Streamlit's chat_message is given for a stored message.
DisplayRole(m) == IF m.role = "user" THEN "user" ELSE "assistant"

Line(r, t) == [role |-> r, text |-> t]

RECURSIVE Sum(_, _)
Sum(f, S) == IF S = {} THEN 0
             ELSE LET x == CHOOSE y \in S : TRUE IN f[x] + Sum(f, S \ {x})

\* Script runs started so far, over all sessions.
TotalRuns == Sum(runs, Sessions)

\* ------------------------------------------------------------------- Init
Init ==
    /\ secret \in SecretStates
    /\ chatCache = 0
    /\ chatLog = <<>>
    /\ pc = [s \in Sessions |-> "idle"]
    /\ runs = [s \in Sessions |-> 0]
    /\ messages = [s \in Sessions |-> NoMessages]
    /\ chat = [s \in Sessions |-> 0]
    /\ pending = [s \in Sessions |-> NoPrompt]
    /\ full_response = [s \in Sessions |-> ""]
    /\ stream = [s \in Sessions |-> <<>>]
    /\ pos = [s \in Sessions |-> 0]
    /\ placeholder = [s \in Sessions |-> <<>>]
    /\ lines = [s \in Sessions |-> <<>>]
    /\ notice = [s \in Sessions |-> <<>>]
    /\ inputShown = [s \in Sessions |-> FALSE]
    /\ outcome = [s \in Sessions |-> "none"]
    /\ submits = [s \in Sessions |-> 0]
    /\ sent = [s \in Sessions |-> 0]
    /\ cleared = [s \in Sessions |-> FALSE]

\* The locals of main() are gone when the run ends.
DropLocals(s) ==
    /\ chat' = [chat EXCEPT ![s] = 0]
    /\ pending' = [pending EXCEPT ![s] = NoPrompt]
    /\ full_response' = [full_response EXCEPT ![s] = ""]
    /\ stream' = [stream EXCEPT ![s] = <<>>]
    /\ pos' = [pos EXCEPT ![s] = 0]

\* -------------------------------------------------------------- environment
\* The secrets file is edited while the process runs.
SecretChanged(v) ==
    /\ v # secret
    /\ secret' = v
    /\ UNCHANGED <<chatCache, chatLog, pc, messages>>
    /\ UNCHANGED <<runVars, pageVars, histVars>>

\* The session's state is discarded (the external "clear history" action).
Clear(s) ==
    /\ pc[s] = "idle"
    /\ messages[s] # NoMessages
    /\ messages' = [messages EXCEPT ![s] = NoMessages]
    /\ submits' = [submits EXCEPT ![s] = 0]
    /\ sent' = [sent EXCEPT ![s] = 0]
    /\ cleared' = [cleared EXCEPT ![s] = TRUE]
    /\ UNCHANGED <<procVars, pc, runVars, pageVars, runs, outcome>>

\* ---------------------------------------------------------- main(): 44-53
\* get_gemini_chat_session behind st.cache_resource, with get_api_key inside.
\* A cached handle is returned without reading the secret, and the cache
\* replays the st.success element of the call that filled it.  Otherwise the
\* function body runs.  With the key, the client and the chat are built
\* (built) or their construction raises (~built).  On KeyError get_api_key
\* shows the error and st.stop() raises.  With no secrets file st.secrets
\* shows its own error box and raises FileNotFoundError, which is no KeyError
\* and leaves get_api_key without st.error or st.stop().  The bare except of
\* main() turns every exception into a return, and a call that raised caches
\* nothing.
RunScript(s, p, built) ==
    /\ pc[s] = "idle"
    /\ TotalRuns < MaxEvents
    /\ p # NoPrompt => inputShown[s]
    /\ runs' = [runs EXCEPT ![s] = @ + 1]
    /\ secret' = secret
    /\ lines' = [lines EXCEPT ![s] = <<>>]
    /\ placeholder' = [placeholder EXCEPT ![s] = <<>>]
    /\ inputShown' = [inputShown EXCEPT ![s] = FALSE]
    /\ UNCHANGED <<messages, full_response, stream, pos, submits, sent, cleared>>
    /\ IF chatCache # 0
       THEN /\ chat' = [chat EXCEPT ![s] = chatCache]
            /\ notice' = [notice EXCEPT ![s] = <<StartedNotice>>]
            /\ pending' = [pending EXCEPT ![s] = p]
            /\ pc' = [pc EXCEPT ![s] = "init"]
            /\ outcome' = [outcome EXCEPT ![s] = "running"]
            /\ UNCHANGED <<chatCache, chatLog>>
       ELSE IF secret = "key" /\ built
       THEN /\ chatLog' = Append(chatLog, <<>>)
            /\ chatCache' = Len(chatLog) + 1
            /\ chat' = [chat EXCEPT ![s] = Len(chatLog) + 1]
            /\ notice' = [notice EXCEPT ![s] = <<StartedNotice>>]
            /\ pending' = [pending EXCEPT ![s] = p]
            /\ pc' = [pc EXCEPT ![s] = "init"]
            /\ outcome' = [outcome EXCEPT ![s] = "running"]
       ELSE IF secret = "key"
       THEN /\ notice' = [notice EXCEPT ![s] = <<>>]
            /\ outcome' = [outcome EXCEPT ![s] = "start_failed"]
            /\ UNCHANGED <<chatCache, chatLog, chat, pending, pc>>
       ELSE IF secret = "no_file"
       THEN /\ notice' = [notice EXCEPT ![s] = <<NoSecretsFileNotice>>]
            /\ outcome' = [outcome EXCEPT ![s] = "start_failed"]
            /\ UNCHANGED <<chatCache, chatLog, chat, pending, pc>>
       ELSE /\ notice' = [notice EXCEPT ![s] = <<MissingKeyNotice>>]
            /\ outcome' = [outcome EXCEPT ![s] = "config_error"]
            /\ UNCHANGED <<chatCache, chatLog, chat, pending, pc>>

\* Initialize without the "messages" not in st.session_state test.
Initialize_AlwaysSeed(s) ==
    /\ pc[s] = "init"
    /\ messages' = [messages EXCEPT ![s] = <<Content("model", WelcomeText)>>]
    /\ pc' = [pc EXCEPT ![s] = "render"]
    /\ UNCHANGED <<procVars, runVars, pageVars, histVars>>

\* Initialize seeding an empty list instead of the welcome message.
Initialize_SeedEmpty(s) ==
    /\ pc[s] = "init"
    /\ messages' = [messages EXCEPT ![s] =
                      IF messages[s] = NoMessages THEN <<>> ELSE messages[s]]
    /\ pc' = [pc EXCEPT ![s] = "render"]
    /\ UNCHANGED <<procVars, runVars, pageVars, histVars>>

\* Initialize seeding the welcome under Streamlit's display role "assistant"
\* in place of the SDK role "model".
Initialize_SeedAssistantRole(s) ==
    /\ pc[s] = "init"
    /\ messages' = [messages EXCEPT ![s] =
                      IF messages[s] = NoMessages
                      THEN <<Content("assistant", WelcomeText)>>
                      ELSE messages[s]]
    /\ pc' = [pc EXCEPT ![s] = "render"]
    /\ UNCHANGED <<procVars, runVars, pageVars, histVars>>

\* ---------------------------------------------------------- main(): 55-59
Initialize(s) ==
    /\ pc[s] = "init"
    /\ messages' = [messages EXCEPT ![s] =
                      IF messages[s] = NoMessages
                      THEN <<Content("model", WelcomeText)>>
                      ELSE messages[s]]
    /\ pc' = [pc EXCEPT ![s] = "render"]
    /\ UNCHANGED <<procVars, runVars, pageVars, histVars>>

\* RenderAll passing the stored role to st.chat_message unmapped.
RenderAll_StoredRole(s) ==
    /\ pc[s] = "render"
    /\ lines' = [lines EXCEPT ![s] =
                   [i \in 1..Len(messages[s]) |->
                      Line(messages[s][i].role, messages[s][i].text)]]
    /\ pc' = [pc EXCEPT ![s] = "input"]
    /\ UNCHANGED <<procVars, messages, runVars, placeholder, notice, inputShown,
                   histVars>>

\* ---------------------------------------------------------- main(): 61-67
RenderAll(s) ==
    /\ pc[s] = "render"
    /\ lines' = [lines EXCEPT ![s] =
                   [i \in 1..Len(messages[s]) |->
                      Line(DisplayRole(messages[s][i]), messages[s][i].text)]]
    /\ pc' = [pc EXCEPT ![s] = "input"]
    /\ UNCHANGED <<procVars, messages, runVars, placeholder, notice, inputShown,
                   histVars>>

\* ------------------------------------------------------------- main(): 70
\* chat_input returned None: the run ends.
NoInput(s) ==
    /\ pc[s] = "input"
    /\ pending[s] = NoPrompt
    /\ inputShown' = [inputShown EXCEPT ![s] = TRUE]
    /\ outcome' = [outcome EXCEPT ![s] = "no_input"]
    /\ pc' = [pc EXCEPT ![s] = "idle"]
    /\ DropLocals(s)
    /\ UNCHANGED <<procVars, messages, placeholder, lines, notice, runs, submits,
                   sent, cleared>>

\* ---------------------------------------------------------- main(): 70-80
\* chat_input returned a prompt: the USER turn is stored and shown, and the
\* assistant container and the spinner are opened; the try statement is next.
AppendUserTurn(s) ==
    /\ pc[s] = "input"
    /\ pending[s] # NoPrompt
    /\ inputShown' = [inputShown EXCEPT ![s] = TRUE]
    /\ messages' = [messages EXCEPT ![s] = Append(@, Content("user", pending[s]))]
    /\ lines' = [lines EXCEPT ![s] = Append(@, Line("user", pending[s]))]
    /\ submits' = [submits EXCEPT ![s] = @ + 1]
    /\ pc' = [pc EXCEPT ![s] = "send"]
    /\ UNCHANGED <<procVars, runVars, placeholder, notice, runs, outcome, sent,
                   cleared>>

\* ---------------------------------------------------------- main(): 70-80
\* The USER turn is stored (73) and one of the display calls that follow it
\* raises: st.chat_message("user") or st.markdown (75-76), before the prompt
\* is on the page (~shown), or st.chat_message("assistant") or st.spinner
\* (78-79), after it (shown).  These calls are outside the try statement of
\* line 81: the exception leaves main() and send_message is not called.
DisplayRaised(s, shown) ==
    /\ pc[s] = "input"
    /\ pending[s] # NoPrompt
    /\ inputShown' = [inputShown EXCEPT ![s] = TRUE]
    /\ messages' = [messages EXCEPT ![s] = Append(@, Content("user", pending[s]))]
    /\ lines' = [lines EXCEPT ![s] =
                    IF shown THEN Append(@, Line("user", pending[s])) ELSE @]
    /\ submits' = [submits EXCEPT ![s] = @ + 1]
    /\ outcome' = [outcome EXCEPT ![s] = "display_raised"]
    /\ pc' = [pc EXCEPT ![s] = "idle"]
    /\ DropLocals(s)
    /\ UNCHANGED <<procVars, placeholder, notice, runs, sent, cleared>>

\* The handle chat[s] is sent the prompt of session s.
Invoke(s) == [chatLog EXCEPT ![chat[s]] = Append(@, <<s, pending[s]>>)]

\* ---------------------------------------------------------- main(): 83-87
\* chat.send_message returns a stream; the accumulator and the slot are made.
SendMessage(s, r) ==
    /\ pc[s] = "send"
    /\ chatLog' = Invoke(s)
    /\ sent' = [sent EXCEPT ![s] = @ + 1]
    /\ stream' = [stream EXCEPT ![s] = r]
    /\ pos' = [pos EXCEPT ![s] = 0]
    /\ full_response' = [full_response EXCEPT ![s] = ""]
    /\ placeholder' = [placeholder EXCEPT ![s] = <<"">>]
    /\ pc' = [pc EXCEPT ![s] = "stream"]
    /\ UNCHANGED <<secret, chatCache, messages, chat, pending, lines, notice,
                   inputShown, runs, outcome, submits, cleared>>

\* Chunk that also stores the text accumulated so far as a transcript turn.
Chunk_StoresPartial(s) ==
    /\ pc[s] = "stream"
    /\ pos[s] < Len(stream[s])
    /\ pos' = [pos EXCEPT ![s] = @ + 1]
    /\ LET text == stream[s][pos[s] + 1] IN
       IF text # ""
       THEN /\ full_response' = [full_response EXCEPT ![s] = @ \o text]
            /\ placeholder' = [placeholder EXCEPT ![s] =
                                 <<(full_response[s] \o text) \o CURSOR>>]
            /\ messages' = [messages EXCEPT ![s] =
                              Append(@, Content("model", full_response[s] \o text))]
       ELSE UNCHANGED <<full_response, placeholder, messages>>
    /\ UNCHANGED <<procVars, pc, chat, pending, stream, lines, notice,
                   inputShown, histVars>>

\* Chunk with "full_response = chunk.text" for "full_response += chunk.text".
Chunk_Overwrite(s) ==
    /\ pc[s] = "stream"
    /\ pos[s] < Len(stream[s])
    /\ pos' = [pos EXCEPT ![s] = @ + 1]
    /\ LET text == stream[s][pos[s] + 1] IN
       IF text # ""
       THEN /\ full_response' = [full_response EXCEPT ![s] = text]
            /\ placeholder' = [placeholder EXCEPT ![s] = <<text \o CURSOR>>]
       ELSE UNCHANGED <<full_response, placeholder>>
    /\ UNCHANGED <<procVars, pc, messages, chat, pending, stream, lines, notice,
                   inputShown, histVars>>

\* Chunk writing after what the slot already shows instead of replacing it.
Chunk_AppendsToSlot(s) ==
    /\ pc[s] = "stream"
    /\ pos[s] < Len(stream[s])
    /\ pos' = [pos EXCEPT ![s] = @ + 1]
    /\ LET text == stream[s][pos[s] + 1] IN
       IF text # ""
       THEN /\ full_response' = [full_response EXCEPT ![s] = @ \o text]
            /\ placeholder' = [placeholder EXCEPT ![s] =
                                 <<(placeholder[s][1] \o (full_response[s] \o text))
                                     \o CURSOR>>]
       ELSE UNCHANGED <<full_response, placeholder>>
    /\ UNCHANGED <<procVars, pc, messages, chat, pending, stream, lines, notice,
                   inputShown, histVars>>

\* Chunk without the "if chunk.text" test.
Chunk_NoTextTest(s) ==
    /\ pc[s] = "stream"
    /\ pos[s] < Len(stream[s])
    /\ pos' = [pos EXCEPT ![s] = @ + 1]
    /\ LET text == stream[s][pos[s] + 1] IN
       /\ full_response' = [full_response EXCEPT ![s] = @ \o text]
       /\ placeholder' = [placeholder EXCEPT ![s] =
                            <<(full_response[s] \o text) \o CURSOR>>]
    /\ UNCHANGED <<procVars, pc, messages, chat, pending, stream, lines, notice,
                   inputShown, histVars>>

\* ---------------------------------------------------------- main(): 88-91
Chunk(s) ==
    /\ pc[s] = "stream"
    /\ pos[s] < Len(stream[s])
    /\ pos' = [pos EXCEPT ![s] = @ + 1]
    /\ LET text == stream[s][pos[s] + 1] IN
       IF text # ""
       THEN /\ full_response' = [full_response EXCEPT ![s] = @ \o text]
            /\ placeholder' = [placeholder EXCEPT ![s] =
                                 <<(full_response[s] \o text) \o CURSOR>>]
       ELSE UNCHANGED <<full_response, placeholder>>
    /\ UNCHANGED <<procVars, pc, messages, chat, pending, stream, lines, notice,
                   inputShown, histVars>>

\* ---------------------------------------------------------- main(): 92-96
FinalizeSuccess(s) ==
    /\ pc[s] = "stream"
    /\ pos[s] = Len(stream[s])
    /\ placeholder' = [placeholder EXCEPT ![s] = <<full_response[s]>>]
    /\ messages' = [messages EXCEPT ![s] = Append(@, Content("model", full_response[s]))]
    /\ outcome' = [outcome EXCEPT ![s] = "ok"]
    /\ pc' = [pc EXCEPT ![s] = "idle"]
    /\ DropLocals(s)
    /\ UNCHANGED <<procVars, lines, notice, inputShown, runs, submits, sent,
                   cleared>>

\* ApiErrorRaised storing the raw error message as the transcript turn.
ApiErrorRaised_RawText(s, e) ==
    /\ pc[s] \in {"send", "stream"}
    /\ IF pc[s] = "send"
       THEN /\ chatLog' = Invoke(s)
            /\ sent' = [sent EXCEPT ![s] = @ + 1]
       ELSE UNCHANGED <<chatLog, sent>>
    /\ notice' = [notice EXCEPT ![s] = Append(@, "An API Error occurred: " \o e)]
    /\ messages' = [messages EXCEPT ![s] =
                      Append(@, Content("model", "An API Error occurred: " \o e))]
    /\ outcome' = [outcome EXCEPT ![s] = "api_error"]
    /\ pc' = [pc EXCEPT ![s] = "idle"]
    /\ DropLocals(s)
    /\ UNCHANGED <<secret, chatCache, placeholder, lines, inputShown, runs,
                   submits, cleared>>

\* ApiErrorRaised replacing the unanswered USER turn by the error turn.
ApiErrorRaised_DropsUserTurn(s, e) ==
    /\ pc[s] \in {"send", "stream"}
    /\ IF pc[s] = "send"
       THEN /\ chatLog' = Invoke(s)
            /\ sent' = [sent EXCEPT ![s] = @ + 1]
       ELSE UNCHANGED <<chatLog, sent>>
    /\ notice' = [notice EXCEPT ![s] = Append(@, "An API Error occurred: " \o e)]
    /\ messages' = [messages EXCEPT ![s] =
                      Append(SubSeq(@, 1, Len(@) - 1), Content("model", ApiErrorText))]
    /\ outcome' = [outcome EXCEPT ![s] = "api_error"]
    /\ pc' = [pc EXCEPT ![s] = "idle"]
    /\ DropLocals(s)
    /\ UNCHANGED <<secret, chatCache, placeholder, lines, inputShown, runs,
                   submits, cleared>>

\* ApiErrorRaised with a retry: the handler starts the iteration of the reply
\* again instead of ending the run.
ApiErrorRaised_Retry(s, e) ==
    /\ pc[s] \in {"send", "stream"}
    /\ IF pc[s] = "send"
       THEN /\ chatLog' = Invoke(s)
            /\ sent' = [sent EXCEPT ![s] = @ + 1]
       ELSE UNCHANGED <<chatLog, sent>>
    /\ notice' = [notice EXCEPT ![s] = <<"An API Error occurred: " \o e>>]
    /\ pc' = [pc EXCEPT ![s] = "stream"]
    /\ pos' = [pos EXCEPT ![s] = 0]
    /\ full_response' = [full_response EXCEPT ![s] = ""]
    /\ placeholder' = [placeholder EXCEPT ![s] = <<"">>]
    /\ UNCHANGED <<secret, chatCache, messages, chat, pending, stream, lines,
                   inputShown, runs, outcome, submits, cleared>>

\* --------------------------------------------------------- main(): 98-101
\* send_message, or the iteration of the stream, raises APIError e.
ApiErrorRaised(s, e) ==
    /\ pc[s] \in {"send", "stream"}
    /\ IF pc[s] = "send"
       THEN /\ chatLog' = Invoke(s)
            /\ sent' = [sent EXCEPT ![s] = @ + 1]
       ELSE UNCHANGED <<chatLog, sent>>
    /\ notice' = [notice EXCEPT ![s] = Append(@, "An API Error occurred: " \o e)]
    /\ messages' = [messages EXCEPT ![s] = Append(@, Content("model", ApiErrorText))]
    /\ outcome' = [outcome EXCEPT ![s] = "api_error"]
    /\ pc' = [pc EXCEPT ![s] = "idle"]
    /\ DropLocals(s)
    /\ UNCHANGED <<secret, chatCache, placeholder, lines, inputShown, runs,
                   submits, cleared>>

\* ---------------------------------------------------------- main(): 81-98
\* send_message, or the iteration of the stream, raises an exception that is
\* no APIError: no handler matches and it leaves main().
OtherErrorRaised(s) ==
    /\ pc[s] \in {"send", "stream"}
    /\ IF pc[s] = "send"
       THEN /\ chatLog' = Invoke(s)
            /\ sent' = [sent EXCEPT ![s] = @ + 1]
       ELSE UNCHANGED <<chatLog, sent>>
    /\ outcome' = [outcome EXCEPT ![s] = "uncaught"]
    /\ pc' = [pc EXCEPT ![s] = "idle"]
    /\ DropLocals(s)
    /\ UNCHANGED <<secret, chatCache, messages, pageVars, runs, submits, cleared>>

\* ------------------------------------------------------------------- Next
Next ==
    \/ \E v \in SecretStates : SecretChanged(v)
    \/ \E s \in Sessions : Clear(s)
    \/ \E s \in Sessions : \E p \in Prompts \cup {NoPrompt} : \E built \in BOOLEAN :
          RunScript(s, p, built)
    \/ \E s \in Sessions : Initialize(s)
    \/ \E s \in Sessions : RenderAll(s)
    \/ \E s \in Sessions : NoInput(s)
    \/ \E s \in Sessions : AppendUserTurn(s)
    \/ \E s \in Sessions : \E shown \in BOOLEAN : DisplayRaised(s, shown)
    \/ \E s \in Sessions : \E r \in Responses : SendMessage(s, r)
    \/ \E s \in Sessions : Chunk(s)
    \/ \E s \in Sessions : FinalizeSuccess(s)
    \/ \E s \in Sessions : \E e \in ErrorTexts : ApiErrorRaised(s, e)
    \/ \E s \in Sessions : OtherErrorRaised(s)

Spec == Init /\ [][Next]_vars

\* A step of the script run of session s.  The script thread of a run keeps
\* running until main() returns or raises: a run that can take a step takes one.
RunStep(s) ==
    \/ Initialize(s)
    \/ RenderAll(s)
    \/ NoInput(s)
    \/ AppendUserTurn(s)
    \/ \E shown \in BOOLEAN : DisplayRaised(s, shown)
    \/ \E r \in Responses : SendMessage(s, r)
    \/ Chunk(s)
    \/ FinalizeSuccess(s)
    \/ \E e \in ErrorTexts : ApiErrorRaised(s, e)
    \/ OtherErrorRaised(s)

FairSpec == Spec /\ \A s \in Sessions : WF_vars(RunStep(s))

\* ================================================================== claims
HasTranscript(s) == messages[s] # NoMessages

\* The run of session s has ended (or none has started).
Idle(s) == pc[s] = "idle"

\* m is the welcome turn followed by n (user, model) pairs.
WelcomeThenPairs(m, n) ==
    /\ Len(m) = 1 + 2 * n
    /\ m[1] = Content("model", WelcomeText)
    /\ \A i \in 2..Len(m) : m[i].role = IF i % 2 = 0 THEN "user" ELSE "model"

\* C1: after N submissions, each handled to the end of its run (the model
\* was invoked for each, and the stream ended cleanly or raised), the
\* transcript is the welcome turn followed by exactly N USER and N ASSISTANT
\* turns, strictly alternating; no USER turn is left unanswered between runs.
C1_AppendOnce ==
    \A s \in Sessions :
        (Idle(s) /\ HasTranscript(s) /\ sent[s] = submits[s])
            => WelcomeThenPairs(messages[s], submits[s])

\* C2: an error of the model invocation or of the stream that is no
\* API-level error is caught where the model is invoked: it does not leave
\* the event handler, and the submission is answered by one ASSISTANT turn
\* (with a fixed text of its own).
C2_UnexpectedErrorRecovered ==
    \A s \in Sessions :
        /\ outcome[s] # "uncaught"
        /\ (Idle(s) /\ HasTranscript(s) /\ submits[s] > 0 /\ sent[s] = submits[s])
              => Last(messages[s]).role = "model"

\* The texts of the sequence q, concatenated in order.
RECURSIVE Concat(_)
Concat(q) == IF q = <<>> THEN "" ELSE Head(q) \o Concat(Tail(q))

\* The texts a stream of Responses has accumulated strictly before its end,
\* that are the final text of no stream.
PartialTexts ==
    UNION { { Concat(SubSeq(r, 1, k)) : k \in 1..(Len(r) - 1) } : r \in Responses }
        \ { Concat(r) : r \in Responses }

\* C3: between the start of a streaming reply and its finalize the transcript
\* is the one streaming began with (the prior turns and the USER turn just
\* appended): no fragment changes it, and no turn ever holds a partial text.
C3_NoPartialTurns ==
    /\ [](\A s \in Sessions :
            /\ pc[s] = "stream" =>
                  /\ Len(messages[s]) >= 2
                  /\ Last(messages[s]) = Content("user", pending[s])
            /\ HasTranscript(s) =>
                  \A i \in 1..Len(messages[s]) : messages[s][i].text \notin PartialTexts)
    /\ [][\A s \in Sessions :
            (pc[s] \in {"send", "stream"} /\ pc'[s] = "stream")
                => messages'[s] = messages[s]]_vars

\* C3 witness: a stream is under way with a partial text accumulated.
C3_Witness ==
    \E s \in Sessions :
        /\ pc[s] = "stream"
        /\ full_response[s] = "Hel"
        /\ pos[s] = 1

\* The notice st.error shows for an APIError with text e.
ErrorNotice(e) == "An API Error occurred: " \o e

\* C4: an API-level error after k >= 0 fragments appends exactly the fixed
\* API-error turn: non-empty, with none of the accumulated text and nothing of
\* the error raised; the raw error text is shown in the notice only.
C4_ApiErrorTurnFixed ==
    \A s \in Sessions :
        /\ (Idle(s) /\ outcome[s] = "api_error" /\ HasTranscript(s)) =>
              /\ Last(messages[s]) = Content("model", ApiErrorText)
              /\ Last(messages[s]).text # ""
              /\ messages[s][Len(messages[s]) - 1].role = "user"
              /\ \E e \in ErrorTexts : Last(notice[s]) = ErrorNotice(e)
        /\ HasTranscript(s) =>
              \A i \in 1..Len(messages[s]) : \A e \in ErrorTexts :
                  messages[s][i].text \notin {e, ErrorNotice(e)}

\* C4 witness: an API error was handled after fragments had been shown.
C4_Witness ==
    \E s \in Sessions :
        /\ Idle(s)
        /\ outcome[s] = "api_error"
        /\ placeholder[s] = <<"Hel" \o CURSOR>>
        /\ Last(notice[s]) = ErrorNotice("503")
        /\ Last(messages[s]).text = ApiErrorText

\* C5: a stream that ends cleanly finalizes to the concatenation of its
\* fragments' texts in arrival order; every fragment extends the accumulator by
\* its text, so an empty one changes nothing.
C5_ConcatInOrder ==
    [][\A s \in Sessions :
         /\ (pc[s] = "stream" /\ pos'[s] = pos[s] + 1)
               => /\ full_response'[s] = full_response[s] \o stream[s][pos[s] + 1]
                  /\ full_response'[s] = Concat(SubSeq(stream[s], 1, pos'[s]))
                  /\ stream[s][pos[s] + 1] = ""
                        => placeholder'[s] = placeholder[s]
         /\ (pc[s] = "stream" /\ Idle(s)' /\ outcome'[s] = "ok")
               => /\ messages'[s] = Append(messages[s], Content("model", Concat(stream[s])))
                  /\ pos[s] = Len(stream[s])]_vars

\* C5 witness: "Hel", "lo, ", "world" was finalized as "Hello, world".
C5_Witness ==
    \E s \in Sessions :
        /\ Idle(s)
        /\ outcome[s] = "ok"
        /\ Last(messages[s]) = Content("model", "Hello, world")
        /\ placeholder[s] = <<"Hello, world">>

\* C6: the conversation handle is scoped to one session: two sessions never
\* hold the same handle, and the prompts sent to one handle all come from one
\* session.
C6_HandlePerSession ==
    /\ \A s1, s2 \in Sessions :
          (s1 # s2 /\ chat[s1] # 0 /\ chat[s2] # 0) => chat[s1] # chat[s2]
    /\ \A h \in 1..Len(chatLog) : \A i, j \in 1..Len(chatLog[h]) :
          chatLog[h][i][1] = chatLog[h][j][1]

\* The turns of m equal to the welcome turn.
WelcomeCount(m) ==
    Cardinality({ i \in 1..Len(m) : m[i] = Content("model", WelcomeText) })

\* C7: the initialization step of a run leaves an existing transcript exactly
\* as it was; over any reruns and submissions the welcome turn is the first
\* turn and occurs once.
C7_InitializeIdempotent ==
    /\ [][\A s \in Sessions :
            (pc[s] = "init" /\ pc'[s] = "render" /\ HasTranscript(s))
                => messages'[s] = messages[s]]_vars
    /\ [](\A s \in Sessions :
            HasTranscript(s) =>
                /\ messages[s][1] = Content("model", WelcomeText)
                /\ WelcomeCount(messages[s]) = 1)

\* C7 witness: the initialization step has run on a transcript that already
\* held a submission's turns, in a rerun after that submission.
C7_Witness ==
    \E s \in Sessions :
        /\ pc[s] = "render"
        /\ runs[s] = 3
        /\ Len(messages[s]) = 3

\* Session s has not got past the start of main() in any run.
NotStarted(s) == outcome[s] \in {"none", "config_error", "start_failed"}

\* The error boxes that tell the user the secret is not configured: the
\* program's own, and the one st.secrets writes when there is no secrets file.
ConfigurationErrors == {MissingKeyNotice, NoSecretsFileNotice}

\* C8: a run of a session that has not started, begun while the secret is
\* missing, shows a configuration error and ends: no transcript, no line on
\* the page, no input widget, no model invocation.
C8_MissingSecretStopsSession ==
    [][\A s \in Sessions :
         (runs'[s] = runs[s] + 1 /\ NotStarted(s) /\ secret # "key")
             => /\ Idle(s)'
                /\ outcome'[s] \in {"config_error", "start_failed"}
                /\ Len(notice'[s]) = 1
                /\ notice'[s][1] \in ConfigurationErrors
                /\ messages'[s] = NoMessages
                /\ lines'[s] = <<>>
                /\ ~inputShown'[s]
                /\ chatLog' = chatLog]_vars

\* C9: the model is invoked only after the USER turn was appended: when the
\* handle is sent a prompt the transcript ends with the USER turn of that
\* prompt; every accepted submission appends one USER turn and makes one
\* invocation, and there is no invocation without a submission.
C9_InvokeAfterUserTurn ==
    /\ [](\A s \in Sessions :
            /\ pc[s] = "send" =>
                  /\ submits[s] = sent[s] + 1
                  /\ HasTranscript(s)
                  /\ Last(messages[s]) = Content("user", pending[s])
            /\ pc[s] # "send" => sent[s] = submits[s]
            /\ pending[s] = NoPrompt => pc[s] \notin {"send", "stream"})
    /\ [][\A s \in Sessions :
            /\ sent'[s] = sent[s] + 1 =>
                  /\ pc[s] = "send"
                  /\ Last(messages[s]) = Content("user", pending[s])
                  /\ chatLog' = [chatLog EXCEPT ![chat[s]] = Append(@, <<s, pending[s]>>)]
            /\ submits'[s] = submits[s] + 1 =>
                  /\ messages'[s] = Append(messages[s], Content("user", pending[s]))
                  /\ pc'[s] = "send"
            /\ chatLog' # chatLog =>
                  \E s2 \in Sessions :
                      \/ sent'[s2] = sent[s2] + 1
                      \/ (runs'[s2] = runs[s2] + 1 /\ chatLog' = Append(chatLog, <<>>))]_vars

\* C10: after the session state is discarded, the next initialization gives
\* the welcome turn alone, with no turn from before, and no accumulator is
\* left; the transcript then grows as in a fresh session.
C10_ClearResets ==
    \A s \in Sessions :
        cleared[s] =>
            /\ (HasTranscript(s) /\ submits[s] = 0)
                  => messages[s] = <<Content("model", WelcomeText)>>
            /\ pc[s] \in {"render", "input"} => HasTranscript(s)
            /\ HasTranscript(s) => Len(messages[s]) <= 1 + 2 * submits[s]
            /\ pc[s] \in {"idle", "init", "render", "input"}
                  => (full_response[s] = "" /\ stream[s] = <<>>)

\* C10 witness: a session that had sent a prompt was cleared and initialized
\* again.
C10_Witness ==
    \E s \in Sessions :
        /\ cleared[s]
        /\ pc[s] = "input"
        /\ messages[s] = <<Content("model", WelcomeText)>>
        /\ \E h \in 1..Len(chatLog) : \E i \in 1..Len(chatLog[h]) : chatLog[h][i][1] = s

\* The transcript as a list: empty while the session has none.
Transcript(s) == IF HasTranscript(s) THEN messages[s] ELSE <<>>

\* Session s takes a step of a script run.
RunStepOf(s) == pc'[s] # pc[s] \/ runs'[s] # runs[s] \/ pos'[s] # pos[s]

\* C11: the transcript is append-only: over every step of every run
\* (initialization, rendering, user append, fragment, finalize on success or
\* on error) the old transcript is a prefix of the new one, which is longer by
\* one turn at most; only the external clear removes turns.
C11_AppendOnly ==
    [][\A s \in Sessions :
         /\ RunStepOf(s) =>
               /\ HasTranscript(s) => HasTranscript(s)'
               /\ Len(Transcript(s)') <= Len(Transcript(s)) + 1
               /\ Len(Transcript(s)') >= Len(Transcript(s))
               /\ SubSeq(Transcript(s)', 1, Len(Transcript(s))) = Transcript(s)
         /\ ~RunStepOf(s) =>
               \/ messages'[s] = messages[s]
               \/ (Idle(s) /\ ~HasTranscript(s)')]_vars

\* C11 witness: a transcript that has grown to five turns over three runs, one
\* turn per appending step.
C11_Witness ==
    \E s \in Sessions :
        /\ Idle(s)
        /\ runs[s] = 3
        /\ Len(Transcript(s)) = 5

\* C12: a transcript is never empty and begins with the ASSISTANT welcome
\* turn; after the first initialization of a fresh session it is exactly
\* [welcome], and the first submission "hi", answered by the fragments "Hi",
\* "!", makes it [welcome, USER "hi", ASSISTANT "Hi!"].
C12_WelcomeFirst ==
    /\ [](\A s \in Sessions :
            /\ HasTranscript(s) =>
                  /\ Len(messages[s]) >= 1
                  /\ messages[s][1] = Content("model", WelcomeText)
                  /\ DisplayRole(messages[s][1]) = "assistant"
            /\ (runs[s] = 1 /\ ~cleared[s] /\ pc[s] \in {"render", "input"})
                  => messages[s] = <<Content("model", WelcomeText)>>)
    /\ [][\A s \in Sessions :
            (/\ pc[s] = "stream" /\ Idle(s)' /\ outcome'[s] = "ok"
             /\ Len(messages[s]) = 2 /\ pending[s] = "hi" /\ stream[s] = <<"Hi", "!">>)
                => messages'[s] = << Content("model", WelcomeText),
                                     Content("user", "hi"),
                                     Content("model", "Hi!") >>]_vars

\* C12 witness: the scenario's transcript, [welcome, "hi", "Hi!"], at the end
\* of the run that streamed "Hi", "!".
C12_Witness ==
    \E s \in Sessions :
        /\ Idle(s)
        /\ outcome[s] = "ok"
        /\ placeholder[s] = <<"Hi!">>
        /\ messages[s] = << Content("model", WelcomeText),
                            Content("user", "hi"),
                            Content("model", "Hi!") >>

\* C13: while streaming, the slot is overwritten: right after a non-empty
\* fragment is accumulated it shows exactly the whole text accumulated so far
\* followed by one cursor marker, with no earlier marker and no repeated prefix.
C13_SlotOverwritten ==
    /\ [][\A s \in Sessions :
            (pc[s] = "stream" /\ pos'[s] = pos[s] + 1 /\ stream[s][pos[s] + 1] # "")
                => /\ placeholder'[s] = <<full_response'[s] \o CURSOR>>
                   /\ placeholder'[s] =
                         <<Concat(SubSeq(stream[s], 1, pos'[s])) \o CURSOR>>]_vars
    /\ [](\A s \in Sessions :
            pc[s] = "stream" =>
                placeholder[s] = IF full_response[s] = ""
                                 THEN <<"">>
                                 ELSE <<full_response[s] \o CURSOR>>)

\* C13 witness: the slot after the second non-empty fragment of "Hel", "lo, ",
\* "world".
C13_Witness ==
    \E s \in Sessions :
        /\ pc[s] = "stream"
        /\ pos[s] = 2
        /\ placeholder[s] = <<"Hello, " \o CURSOR>>

\* The slot of session s shows an accumulated text followed by the cursor.
ShowsCursor(s) ==
    \E r \in Responses : \E k \in 0..Len(r) :
        placeholder[s] = <<Concat(SubSeq(r, 1, k)) \o CURSOR>>

\* C14: once a reply cycle has finalized, on success or on an API error after
\* fragments were shown, the slot no longer shows the cursor marker; on success
\* it shows exactly the accumulated text, the text of the turn appended.
C14_CursorRemovedOnFinalize ==
    \A s \in Sessions :
        (Idle(s) /\ outcome[s] \in {"ok", "api_error"}) =>
            /\ ~ShowsCursor(s)
            /\ (outcome[s] = "ok" /\ HasTranscript(s))
                  => placeholder[s] = <<Last(messages[s]).text>>

\* The notices st.error shows for the API errors.
ErrorNotices == { ErrorNotice(e) : e \in ErrorTexts }

\* C15: a stream that ends cleanly after no fragment, or after empty
\* fragments only, is a success: one ASSISTANT turn with the empty text is
\* appended, the cursor marker is never shown, and there is no error turn and
\* no error notice.
C15_EmptyStreamIsSuccess ==
    /\ [](\A s \in Sessions :
            (pc[s] = "stream" /\ Concat(SubSeq(stream[s], 1, pos[s])) = "")
                => /\ placeholder[s] = <<"">>
                   /\ ~ShowsCursor(s)
                   /\ \A i \in 1..Len(notice[s]) : notice[s][i] \notin ErrorNotices)
    /\ [][\A s \in Sessions :
            (pc[s] = "stream" /\ Idle(s)' /\ outcome'[s] = "ok"
             /\ Concat(stream[s]) = "")
                => /\ pos[s] = Len(stream[s])
                   /\ messages'[s] = Append(messages[s], Content("model", ""))
                   /\ Last(messages'[s]).text # ApiErrorText
                   /\ placeholder'[s] = <<"">>
                   /\ notice'[s] = notice[s]]_vars

\* C15 witness: a run ended well on a stream that carried no text: the turn
\* appended is empty and so is the slot.
C15_Witness ==
    \E s \in Sessions :
        /\ Idle(s)
        /\ outcome[s] = "ok"
        /\ Last(messages[s]) = Content("model", "")
        /\ placeholder[s] = <<"">>
        /\ notice[s] = <<StartedNotice>>

\* C16: a run whose stream raised an API error ends normally: the session is
\* idle with its transcript answered, the input widget on the page and the
\* conversation handle kept; a later submission is then handled as usual (one
\* USER turn, one invocation, one ASSISTANT turn); and every run, its stream
\* being finite, reaches idle (at every moment the session is idle or will be).
C16_ErrorThenContinue ==
    /\ [](\A s \in Sessions :
            /\ (Idle(s) /\ outcome[s] = "api_error") =>
                  /\ inputShown[s]
                  /\ chatCache # 0
                  /\ HasTranscript(s) => Last(messages[s]).role = "model"
            /\ (/\ Idle(s) /\ outcome[s] = "ok" /\ HasTranscript(s)
                /\ Len(messages[s]) = 5
                /\ messages[s][3] = Content("model", ApiErrorText)) =>
                  /\ messages[s][4].role = "user"
                  /\ messages[s][5].role = "model"
                  /\ messages[s][5].text # ApiErrorText
                  /\ submits[s] = 2
                  /\ sent[s] = 2)
    /\ [][\A s \in Sessions :
            (~Idle(s) /\ Idle(s)' /\ outcome'[s] = "api_error") =>
                /\ chatCache' = chatCache
                /\ messages'[s] = Append(messages[s], Content("model", ApiErrorText))]_vars
    /\ \A s \in Sessions : []<>Idle(s)

\* C16 witness: a session whose first submission met an API error has had its
\* second submission answered by the model.
C16_Witness ==
    \E s \in Sessions :
        /\ Idle(s)
        /\ outcome[s] = "ok"
        /\ Len(messages[s]) = 5
        /\ messages[s][3] = Content("model", ApiErrorText)
        /\ messages[s][5] = Content("model", "Hi!")

\* C17: rendering the history is a function of the transcript alone: one line
\* per turn, in transcript order, styled "user" for a USER turn and "assistant"
\* for any other (welcome and error turns included), showing the turn's text;
\* it leaves the transcript as it is.
C17_RenderIsPure ==
    /\ [][\A s \in Sessions :
            (pc[s] = "render" /\ pc'[s] = "input") =>
                /\ messages'[s] = messages[s]
                /\ Len(lines'[s]) = Len(messages[s])
                /\ \A i \in 1..Len(messages[s]) :
                      /\ lines'[s][i].text = messages[s][i].text
                      /\ lines'[s][i].role \in {"user", "assistant"}
                      /\ lines'[s][i].role = "user" <=> messages[s][i].role = "user"]_vars
    /\ [](\A s1, s2 \in Sessions :
            (pc[s1] = "input" /\ pc[s2] = "input" /\ messages[s1] = messages[s2])
                => lines[s1] = lines[s2])

\* C17 witness: a history with the welcome, a USER turn and the error turn has
\* been rendered as assistant, user, assistant.
C17_Witness ==
    \E s \in Sessions :
        /\ pc[s] = "input"
        /\ lines[s] = << Line("assistant", WelcomeText),
                         Line("user", "x"),
                         Line("assistant", ApiErrorText) >>

====
